---- MODULE Spec2Model ----
(***************************************************************************)
(* Timetable scheduling of the coaching-institute API: the route handlers  *)
(* that write prisma.timetable (timetable, teacher-schedule, teacher-      *)
(* assignment and class-subject routes), modelled over a small entity      *)
(* store.                                                                  *)
(*                                                                         *)
(* Times are the HH:MM strings of the schemas read as the number HHMM      *)
(* ("09:30" is 930): the code compares the zero-padded strings, and on     *)
(* strings of that fixed shape the string order is the order of HHMM.      *)
(* The placeholder ids '' the code writes are the empty string here.       *)
(***************************************************************************)
EXTENDS Integers, Sequences, FiniteSets, TLC

VARIABLES timetable, nextId, last, procs, feeRecords, payments

vars == <<timetable, nextId, last, procs, feeRecords, payments>>

(***************************************************************************)
(* Bounds of the model.                                                    *)
(***************************************************************************)
\* rows ever inserted into prisma.timetable in one behaviour
MaxEntries == 2

(***************************************************************************)
(* The entity store the handlers read: classes, subjects, teachers (users  *)
(* with role TEACHER, active) with their institute, and the teacherSubject *)
(* qualification rows.                                                     *)
(***************************************************************************)
classInstitute == [c1 |-> "i1", c2 |-> "i1", c3 |-> "i2"]

subjectInstitute == [s1 |-> "i1", s2 |-> "i1", s3 |-> "i2"]

teacherInstitute == [t1 |-> "i1", t2 |-> "i1", t3 |-> "i2"]

teacherSubject ==
    {<<"t1", "s1">>, <<"t2", "s1">>, <<"t2", "s2">>, <<"t3", "s3">>}

Classes == DOMAIN classInstitute

Subjects == DOMAIN subjectInstitute

Teachers == DOMAIN teacherInstitute

\* prisma.class.findFirst({ where: { id, instituteId } })
findClass(id, instituteId) ==
    id \in Classes /\ classInstitute[id] = instituteId

\* prisma.subject.findFirst({ where: { id, instituteId } })
findSubject(id, instituteId) ==
    id \in Subjects /\ subjectInstitute[id] = instituteId

\* prisma.user.findFirst({ where: { id, instituteId, role: 'TEACHER' } })
findTeacher(id, instituteId) ==
    id \in Teachers /\ teacherInstitute[id] = instituteId

\* prisma.teacherSubject.findFirst({ where: { teacherId, subjectId } })
findQualification(teacherId, subjectId) ==
    <<teacherId, subjectId>> \in teacherSubject

\* authorize('SUPER_ADMIN', 'ADMIN')
\* authorize with TEACHER among the roles let through
authorizeWithTeacher(user) ==
    user.role \in {"SUPER_ADMIN", "ADMIN", "TEACHER"}

authorize(user) ==
    user.role \in {"SUPER_ADMIN", "ADMIN"}

(***************************************************************************)
(* Rows of prisma.timetable.  A row written without a room has none: "".   *)
(***************************************************************************)
Row(id, classId, subjectId, teacherId, dayOfWeek, startTime, endTime, isPrimary) ==
    [id |-> id, classId |-> classId, subjectId |-> subjectId,
     teacherId |-> teacherId, dayOfWeek |-> dayOfWeek,
     startTime |-> startTime, endTime |-> endTime,
     isPrimary |-> isPrimary, isActive |-> TRUE, room |-> ""]

\* the outcome of a handler: the store it leaves, the response, the row it wrote
Outcome(store, result, id) ==
    [store |-> store, result |-> result, id |-> id]

(***************************************************************************)
(* POST /timetable/classes/:classId                                        *)
(***************************************************************************)
\* the double-booking lookup: same teacher, day and startTime
existingConflict(store, teacherId, dayOfWeek, startTime) ==
    \E e \in store :
        /\ e.teacherId = teacherId
        /\ e.dayOfWeek = dayOfWeek
        /\ e.startTime = startTime

\* the exact-combination lookup
existingExact(store, b) ==
    \E e \in store :
        /\ e.classId = b.classId
        /\ e.subjectId = b.subjectId
        /\ e.teacherId = b.teacherId
        /\ e.dayOfWeek = b.dayOfWeek
        /\ e.startTime = b.startTime

\* createTimetable without the qualification lookup
createTimetableUnqualified(store, nid, user, classId, b) ==
    IF ~authorize(user) THEN Outcome(store, "Forbidden", 0)
    ELSE IF ~findClass(classId, user.instituteId) THEN Outcome(store, "NotFound", 0)
    ELSE IF ~findSubject(b.subjectId, user.instituteId) THEN Outcome(store, "NotFound", 0)
    ELSE IF ~findTeacher(b.teacherId, user.instituteId) THEN Outcome(store, "NotFound", 0)
    ELSE IF existingConflict(store, b.teacherId, b.dayOfWeek, b.startTime)
        THEN Outcome(store, "ScheduleConflict", 0)
    ELSE IF existingExact(store, b) THEN Outcome(store, "DuplicateAssignment", 0)
    ELSE Outcome(store \cup {Row(nid, b.classId, b.subjectId, b.teacherId,
                                 b.dayOfWeek, b.startTime, b.endTime, b.isPrimary)},
                 "ok", nid)

createTimetable(store, nid, user, classId, b) ==
    IF ~authorize(user) THEN Outcome(store, "Forbidden", 0)
    ELSE IF ~findClass(classId, user.instituteId) THEN Outcome(store, "NotFound", 0)
    ELSE IF ~findSubject(b.subjectId, user.instituteId) THEN Outcome(store, "NotFound", 0)
    ELSE IF ~findTeacher(b.teacherId, user.instituteId) THEN Outcome(store, "NotFound", 0)
    ELSE IF ~findQualification(b.teacherId, b.subjectId)
        THEN Outcome(store, "QualificationError", 0)
    ELSE IF existingConflict(store, b.teacherId, b.dayOfWeek, b.startTime)
        THEN Outcome(store, "ScheduleConflict", 0)
    ELSE IF existingExact(store, b) THEN Outcome(store, "DuplicateAssignment", 0)
    ELSE Outcome(store \cup {Row(nid, b.classId, b.subjectId, b.teacherId,
                                 b.dayOfWeek, b.startTime, b.endTime, b.isPrimary)},
                 "ok", nid)

(***************************************************************************)
(* POST /teachers/:id/schedules                                            *)
(***************************************************************************)
\* the OR of the three AND clauses of the conflict lookups
\* the three clauses with gte in place of gt in the first: ranges that touch count
timeConflictClauseTouching(e, startTime, endTime) ==
    \/ (e.startTime <= startTime /\ e.endTime >= startTime)
    \/ (e.startTime < endTime /\ e.endTime >= endTime)
    \/ (e.startTime >= startTime /\ e.endTime <= endTime)

timeConflictClause(e, startTime, endTime) ==
    \/ (e.startTime <= startTime /\ e.endTime > startTime)
    \/ (e.startTime < endTime /\ e.endTime >= endTime)
    \/ (e.startTime >= startTime /\ e.endTime <= endTime)

\* the rows the conflict lookup matches; excludeId 0 when there is none
scheduleConflicts(store, teacherId, dayOfWeek, startTime, endTime, excludeId) ==
    {e \in store :
        /\ e.id # excludeId
        /\ e.teacherId = teacherId
        /\ e.dayOfWeek = dayOfWeek
        /\ timeConflictClause(e, startTime, endTime)}

\* a row created without isPrimary takes the column's default
DefaultIsPrimary == FALSE

createSchedule(store, nid, user, id, d) ==
    IF ~authorize(user) THEN Outcome(store, "Forbidden", 0)
    ELSE IF ~findTeacher(id, user.instituteId) THEN Outcome(store, "NotFound", 0)
    ELSE IF ~findClass(d.classId, user.instituteId) THEN Outcome(store, "NotFound", 0)
    ELSE IF d.startTime >= d.endTime THEN Outcome(store, "ValidationError", 0)
    ELSE IF scheduleConflicts(store, id, d.dayOfWeek, d.startTime, d.endTime, 0) # {}
        THEN Outcome(store, "ScheduleConflict", 0)
    ELSE Outcome(store \cup {Row(nid, d.classId, "", id, d.dayOfWeek,
                                 d.startTime, d.endTime, DefaultIsPrimary)},
                 "ok", nid)

(***************************************************************************)
(* Patches of the update routes: a record holding the fields the request   *)
(* body gives (the schemas are .partial()).                                *)
(***************************************************************************)
Has(p, f) == f \in DOMAIN p

\* prisma.timetable.update({ where: { id }, data }): the row with the data's fields
applyData(e, p) ==
    [f \in DOMAIN e |-> IF Has(p, f) THEN p[f] ELSE e[f]]

updateRow(store, id, p) ==
    {IF e.id = id THEN applyData(e, p) ELSE e : e \in store}

\* prisma.timetable.findUnique({ where: { id } })
rowsById(store, id) == {e \in store : e.id = id}

\* validated.f || existing.f
orExisting(p, e, f) == IF Has(p, f) THEN p[f] ELSE e[f]

(***************************************************************************)
(* PUT /timetable/:id                                                      *)
(***************************************************************************)
updateConflict(store, id, teacherId, dayOfWeek, startTime) ==
    \E e \in store :
        /\ e.id # id
        /\ e.teacherId = teacherId
        /\ e.dayOfWeek = dayOfWeek
        /\ e.startTime = startTime

updateTimetable(store, user, id, p) ==
    IF ~authorize(user) THEN Outcome(store, "Forbidden", 0)
    ELSE IF rowsById(store, id) = {} THEN Outcome(store, "NotFound", 0)
    ELSE LET existing == CHOOSE e \in store : e.id = id IN
         IF /\ Has(p, "teacherId") /\ Has(p, "subjectId")
            /\ ~findQualification(p.teacherId, p.subjectId)
            THEN Outcome(store, "QualificationError", 0)
         ELSE IF /\ (Has(p, "dayOfWeek") \/ Has(p, "startTime"))
                 /\ updateConflict(store, id,
                                   orExisting(p, existing, "teacherId"),
                                   orExisting(p, existing, "dayOfWeek"),
                                   orExisting(p, existing, "startTime"))
            THEN Outcome(store, "ScheduleConflict", 0)
         ELSE Outcome(updateRow(store, id, p), "ok", id)

(***************************************************************************)
(* DELETE /timetable/:id                                                   *)
(***************************************************************************)
deleteTimetable(store, user, id) ==
    IF ~authorize(user) THEN Outcome(store, "Forbidden", 0)
    ELSE IF rowsById(store, id) = {} THEN Outcome(store, "NotFound", 0)
    ELSE Outcome({e \in store : e.id # id}, "ok", id)

(***************************************************************************)
(* PUT /schedules/:id                                                      *)
(***************************************************************************)
\* prisma.timetable.findFirst({ where: { id, teacher: { instituteId } } })
findSchedule(store, id, instituteId) ==
    {e \in store : e.id = id /\ e.teacherId \in Teachers
                   /\ teacherInstitute[e.teacherId] = instituteId}

\* updateSchedule without id: { not: id } in the conflict lookup
updateScheduleSelfScan(store, user, id, p) ==
    IF ~authorize(user) THEN Outcome(store, "Forbidden", 0)
    ELSE IF findSchedule(store, id, user.instituteId) = {}
        THEN Outcome(store, "NotFound", 0)
    ELSE LET existingSchedule == CHOOSE e \in store : e.id = id
             startTime == orExisting(p, existingSchedule, "startTime")
             endTime == orExisting(p, existingSchedule, "endTime")
             dayOfWeek == orExisting(p, existingSchedule, "dayOfWeek")
         IN
         IF Has(p, "classId") /\ ~findClass(p.classId, user.instituteId)
            THEN Outcome(store, "NotFound", 0)
         ELSE IF startTime >= endTime THEN Outcome(store, "ValidationError", 0)
         ELSE IF scheduleConflicts(store, existingSchedule.teacherId, dayOfWeek,
                                   startTime, endTime, 0) # {}
            THEN Outcome(store, "ScheduleConflict", 0)
         ELSE Outcome(updateRow(store, id, p), "ok", id)

updateSchedule(store, user, id, p) ==
    IF ~authorize(user) THEN Outcome(store, "Forbidden", 0)
    ELSE IF findSchedule(store, id, user.instituteId) = {}
        THEN Outcome(store, "NotFound", 0)
    ELSE LET existingSchedule == CHOOSE e \in store : e.id = id
             startTime == orExisting(p, existingSchedule, "startTime")
             endTime == orExisting(p, existingSchedule, "endTime")
             dayOfWeek == orExisting(p, existingSchedule, "dayOfWeek")
         IN
         IF Has(p, "classId") /\ ~findClass(p.classId, user.instituteId)
            THEN Outcome(store, "NotFound", 0)
         ELSE IF startTime >= endTime THEN Outcome(store, "ValidationError", 0)
         ELSE IF scheduleConflicts(store, existingSchedule.teacherId, dayOfWeek,
                                   startTime, endTime, id) # {}
            THEN Outcome(store, "ScheduleConflict", 0)
         ELSE Outcome(updateRow(store, id, p), "ok", id)

(***************************************************************************)
(* DELETE /schedules/:id                                                   *)
(***************************************************************************)
deleteSchedule(store, user, id) ==
    IF ~authorize(user) THEN Outcome(store, "Forbidden", 0)
    ELSE IF findSchedule(store, id, user.instituteId) = {}
        THEN Outcome(store, "NotFound", 0)
    ELSE Outcome({e \in store : e.id # id}, "ok", id)

(***************************************************************************)
(* POST /classes/:id/teachers                                              *)
(***************************************************************************)
\* classData.timetables: the rows of the class
classTimetables(store, classId) == {e \in store : e.classId = classId}

\* teacher.teacherSubjects.some(ts => classSubjectIds.includes(ts.subjectId))
canTeachSubject(store, classId, teacherId) ==
    \E e \in classTimetables(store, classId) :
        <<teacherId, e.subjectId>> \in teacherSubject

\* prisma.timetable.findFirst({ where: { classId, teacherId } })
findAssignments(store, classId, teacherId) ==
    {e \in store : e.classId = classId /\ e.teacherId = teacherId}

\* updateMany({ where: { classId, isPrimary: true }, data: { isPrimary: false } })
demoteAll(store, classId) ==
    {IF e.classId = classId /\ e.isPrimary
        THEN [e EXCEPT !.isPrimary = FALSE] ELSE e : e \in store}

\* the subjects classData.timetables[0] may carry: the lookup states no order
firstSubjects(store, classId) ==
    IF classTimetables(store, classId) = {} THEN {""}
    ELSE {e.subjectId : e \in classTimetables(store, classId)}

\* firstSubject is classData.timetables[0]?.subjectId || ''
assignTeacher(store, nid, user, id, d, firstSubject) ==
    IF ~authorize(user) THEN Outcome(store, "Forbidden", 0)
    ELSE IF ~findClass(id, user.instituteId) THEN Outcome(store, "NotFound", 0)
    ELSE IF ~findTeacher(d.teacherId, user.instituteId) THEN Outcome(store, "NotFound", 0)
    ELSE IF ~canTeachSubject(store, id, d.teacherId)
        THEN Outcome(store, "QualificationError", 0)
    ELSE IF findAssignments(store, id, d.teacherId) # {}
        THEN Outcome(store, "AlreadyAssigned", 0)
    ELSE LET demoted == IF d.isPrimary THEN demoteAll(store, id) ELSE store IN
         Outcome(demoted \cup {Row(nid, id, firstSubject, d.teacherId,
                                   "MONDAY", 900, 1000, d.isPrimary)},
                 "ok", nid)

(***************************************************************************)
(* PUT /classes/:id/teachers/:teacherId                                    *)
(***************************************************************************)
\* updateMany({ where: { classId, isPrimary: true, NOT: { teacherId } }, ... })
demoteOthers(store, classId, teacherId) ==
    {IF e.classId = classId /\ e.isPrimary /\ e.teacherId # teacherId
        THEN [e EXCEPT !.isPrimary = FALSE] ELSE e : e \in store}

\* update({ where: { id: assignment.id }, data: { isPrimary } })
setPrimary(store, assignmentId, isPrimary) ==
    {IF e.id = assignmentId THEN [e EXCEPT !.isPrimary = isPrimary] ELSE e : e \in store}

\* the ids the findFirst of the assignment may return (0: none)
assignmentIds(store, classId, teacherId) ==
    IF findAssignments(store, classId, teacherId) = {} THEN {0}
    ELSE {e.id : e \in findAssignments(store, classId, teacherId)}

\* assignmentId is the row the findFirst returned
updateAssignment(store, user, id, teacherId, isPrimary, assignmentId) ==
    IF ~authorize(user) THEN Outcome(store, "Forbidden", 0)
    ELSE IF ~findClass(id, user.instituteId) THEN Outcome(store, "NotFound", 0)
    ELSE IF assignmentId = 0 THEN Outcome(store, "NotFound", 0)
    ELSE LET demoted == IF isPrimary THEN demoteOthers(store, id, teacherId)
                        ELSE store IN
         Outcome(setPrimary(demoted, assignmentId, isPrimary), "ok", assignmentId)

(***************************************************************************)
(* DELETE /classes/:id/teachers/:teacherId                                 *)
(***************************************************************************)
removeTeacher(store, user, id, teacherId, assignmentId) ==
    IF ~authorize(user) THEN Outcome(store, "Forbidden", 0)
    ELSE IF ~findClass(id, user.instituteId) THEN Outcome(store, "NotFound", 0)
    ELSE IF assignmentId = 0 THEN Outcome(store, "NotFound", 0)
    ELSE Outcome({e \in store : e.id # assignmentId}, "ok", assignmentId)

(***************************************************************************)
(* POST /classes/:id/subjects                                              *)
(***************************************************************************)
\* prisma.subject.findMany({ where: { id: { in: subjectIds }, instituteId } })
findSubjects(subjectIds, instituteId) ==
    {s \in Subjects : /\ \E i \in 1..Len(subjectIds) : subjectIds[i] = s
                      /\ subjectInstitute[s] = instituteId}

\* the for loop over subjectIds: a placeholder row for each subject not yet in the class
RECURSIVE addSubjectRows(_, _, _, _)
addSubjectRows(store, nid, id, subjectIds) ==
    IF subjectIds = <<>> THEN store
    ELSE LET subjectId == Head(subjectIds)
             existing == \E e \in store : e.classId = id /\ e.subjectId = subjectId
         IN IF existing
            THEN addSubjectRows(store, nid, id, Tail(subjectIds))
            ELSE addSubjectRows(
                     store \cup {Row(nid, id, subjectId, "", "MONDAY", 900, 1000,
                                     DefaultIsPrimary)},
                     nid + 1, id, Tail(subjectIds))

addSubjects(store, nid, user, id, subjectIds) ==
    IF ~authorize(user) THEN Outcome(store, "Forbidden", 0)
    ELSE IF ~findClass(id, user.instituteId) THEN Outcome(store, "NotFound", 0)
    ELSE IF Cardinality(findSubjects(subjectIds, user.instituteId)) # Len(subjectIds)
        THEN Outcome(store, "NotFound", 0)
    ELSE Outcome(addSubjectRows(store, nid, id, subjectIds), "ok", 0)

(***************************************************************************)
(* POST /schedules/conflicts/check                                         *)
(***************************************************************************)
\* checkConflicts with a deleteMany of the rows it finds
checkConflictsClearing(store, user, teacherId, dayOfWeek, startTime, endTime, excludeScheduleId) ==
    IF teacherId = "" \/ dayOfWeek = ""
        THEN [store |-> store, result |-> "ValidationError", conflicts |-> {}]
    ELSE IF ~findTeacher(teacherId, user.instituteId)
        THEN [store |-> store, result |-> "NotFound", conflicts |-> {}]
    ELSE LET conflicts == scheduleConflicts(store, teacherId, dayOfWeek, startTime,
                                            endTime, excludeScheduleId)
         IN [store |-> store \ conflicts, result |-> "ok", conflicts |-> conflicts]

\* the response: hasConflict is conflicts # {}; excludeScheduleId 0 when absent,
\* teacherId or dayOfWeek "" when the body does not give it
checkConflicts(store, user, teacherId, dayOfWeek, startTime, endTime, excludeScheduleId) ==
    IF teacherId = "" \/ dayOfWeek = ""
        THEN [store |-> store, result |-> "ValidationError", conflicts |-> {}]
    ELSE IF ~findTeacher(teacherId, user.instituteId)
        THEN [store |-> store, result |-> "NotFound", conflicts |-> {}]
    ELSE [store |-> store, result |-> "ok",
          conflicts |-> scheduleConflicts(store, teacherId, dayOfWeek, startTime,
                                          endTime, excludeScheduleId)]

(***************************************************************************)
(* GET /teachers/:id/schedules and GET /timetable/classes/:classId         *)
(***************************************************************************)
\* the place of a day in the order of the dayOfWeek column
dayIndex ==
    [MONDAY |-> 1, TUESDAY |-> 2, WEDNESDAY |-> 3, THURSDAY |-> 4,
     FRIDAY |-> 5, SATURDAY |-> 6, SUNDAY |-> 7]

\* the orderBy with startTime ahead of dayOfWeek
orderByBeforeStartFirst(a, b) ==
    \/ a.startTime < b.startTime
    \/ /\ a.startTime = b.startTime
       /\ dayIndex[a.dayOfWeek] < dayIndex[b.dayOfWeek]

\* orderBy: [{ dayOfWeek: 'asc' }, { startTime: 'asc' }]: a sorts before b
orderByBefore(a, b) ==
    \/ dayIndex[a.dayOfWeek] < dayIndex[b.dayOfWeek]
    \/ /\ dayIndex[a.dayOfWeek] = dayIndex[b.dayOfWeek]
       /\ a.startTime < b.startTime

\* findMany with the orderBy: the rows in order; rows that tie come in the
\* order the store returns them
RECURSIVE findManyOrdered(_)
findManyOrdered(rows) ==
    IF rows = {} THEN <<>>
    ELSE LET first == CHOOSE e \in rows : \A o \in rows : ~orderByBefore(o, e)
         IN <<first>> \o findManyOrdered(rows \ {first})

\* dayOfWeek "" when the query does not give it
listForTeacher(store, user, id, dayOfWeek) ==
    IF ~findTeacher(id, user.instituteId)
        THEN [store |-> store, result |-> "NotFound", data |-> <<>>]
    ELSE [store |-> store, result |-> "ok",
          data |-> findManyOrdered(
              {e \in store : /\ e.teacherId = id
                             /\ (dayOfWeek = "" \/ e.dayOfWeek = dayOfWeek)})]

\* prisma.class.findUnique({ where: { id: classId } })
listForClass(store, classId) ==
    IF classId \notin Classes
        THEN [store |-> store, result |-> "NotFound", data |-> <<>>]
    ELSE [store |-> store, result |-> "ok",
          data |-> findManyOrdered({e \in store : e.classId = classId})]

(***************************************************************************)
(* What the conflict errors carry.                                         *)
(***************************************************************************)
\* the schedule routes' 400 names conflict, the one row findFirst returned:
\* the sets of rows the message can name
scheduleConflictReports(store, teacherId, dayOfWeek, startTime, endTime, excludeId) ==
    {{e} : e \in scheduleConflicts(store, teacherId, dayOfWeek, startTime,
                                   endTime, excludeId)}

\* the timetable routes' 409 is a fixed message that names no row
timetableConflictReport == {}

(***************************************************************************)
(* A rejected write.  Every handler awaits its prisma calls one by one      *)
(* inside try { ... } catch (error) { next(error) } and none of them opens  *)
(* a transaction: when a call rejects, the handler answers with the error   *)
(* and the writes it made before stay.                                      *)
(***************************************************************************)
\* POST /classes/:id/teachers when prisma.timetable.create rejects
assignTeacherRejected(store, user, id, d) ==
    LET out == assignTeacher(store, 0, user, id, d, "") IN
    IF out.result # "ok" THEN out
    ELSE Outcome(IF d.isPrimary THEN demoteAll(store, id) ELSE store,
                 "InternalError", 0)

\* PUT /classes/:id/teachers/:teacherId when prisma.timetable.update rejects
updateAssignmentRejected(store, user, id, teacherId, isPrimary, assignmentId) ==
    LET out == updateAssignment(store, user, id, teacherId, isPrimary,
                                assignmentId) IN
    IF out.result # "ok" THEN out
    ELSE Outcome(IF isPrimary THEN demoteOthers(store, id, teacherId) ELSE store,
                 "InternalError", 0)

\* POST /classes/:id/subjects when the create for subjectIds[j] rejects: the
\* loop has run over the subjects before it
addSubjectsRejected(store, nid, user, id, subjectIds, j) ==
    LET out == addSubjects(store, nid, user, id, subjectIds)
        before == addSubjectRows(store, nid, id, SubSeq(subjectIds, 1, j - 1))
    IN
    IF out.result # "ok" THEN out
    ELSE IF \E e \in before : e.classId = id /\ e.subjectId = subjectIds[j]
        THEN out
    ELSE Outcome(before, "InternalError", 0)

(***************************************************************************)
(* Requests.  A domain D names the sets a specification draws the inputs   *)
(* of its requests from.                                                   *)
(***************************************************************************)
Admin1 == [instituteId |-> "i1", role |-> "ADMIN"]

Admin2 == [instituteId |-> "i2", role |-> "ADMIN"]

Staff1 == [instituteId |-> "i1", role |-> "STAFF"]

Teacher1 == [instituteId |-> "i1", role |-> "TEACHER"]

\* bodies of createTimetableSchema
timetableBodies(D) ==
    {[classId |-> c, subjectId |-> s, teacherId |-> t, dayOfWeek |-> d,
      startTime |-> sl[1], endTime |-> sl[2], isPrimary |-> pr] :
        c \in D.classes, s \in D.subjects, t \in D.teachers, d \in D.days,
        sl \in D.slots, pr \in D.prims}

\* bodies of createScheduleSchema
scheduleBodies(D) ==
    {[classId |-> c, dayOfWeek |-> d, startTime |-> sl[1], endTime |-> sl[2]] :
        c \in D.classes, d \in D.days, sl \in D.slots}

\* bodies of assignTeacherSchema
assignBodies(D) ==
    {[teacherId |-> t, isPrimary |-> pr] : t \in D.teachers, pr \in BOOLEAN}

\* ids a request may name: those handed out so far
knownIds == 1..(nextId - 1)

Idle == [pc |-> "idle"]

\* the response of a request and the store it leaves
Respond(op, out) ==
    /\ nextId + (Cardinality(out.store) - Cardinality(timetable)) - 1 <= MaxEntries
    /\ timetable' = out.store
    /\ nextId' = IF Cardinality(out.store) > Cardinality(timetable)
                 THEN nextId + (Cardinality(out.store) - Cardinality(timetable))
                 ELSE nextId
    /\ last' = [op |-> op, result |-> out.result, id |-> out.id]
    /\ UNCHANGED <<procs, feeRecords, payments>>

PostTimetable(D) ==
    \E user \in D.users, classId \in D.classes, b \in timetableBodies(D) :
        Respond("createTimetable",
                createTimetable(timetable, nextId, user, classId, b))

PutTimetable(D) ==
    \E user \in D.users, id \in knownIds, p \in D.timetablePatches :
        Respond("updateTimetable", updateTimetable(timetable, user, id, p))

DeleteTimetable(D) ==
    \E user \in D.users, id \in knownIds :
        Respond("deleteTimetable", deleteTimetable(timetable, user, id))

PostSchedule(D) ==
    \E user \in D.users, id \in D.teachers, d \in scheduleBodies(D) :
        Respond("createSchedule",
                createSchedule(timetable, nextId, user, id, d))

PutSchedule(D) ==
    \E user \in D.users, id \in knownIds, p \in D.schedulePatches :
        Respond("updateSchedule", updateSchedule(timetable, user, id, p))

DeleteSchedule(D) ==
    \E user \in D.users, id \in knownIds :
        Respond("deleteSchedule", deleteSchedule(timetable, user, id))

PostClassTeacher(D) ==
    \E user \in D.users, id \in D.classes, d \in assignBodies(D) :
        \E firstSubject \in firstSubjects(timetable, id) :
            Respond("assignTeacher",
                    assignTeacher(timetable, nextId, user, id, d, firstSubject))

PutClassTeacher(D) ==
    \E user \in D.users, id \in D.classes, teacherId \in D.teachers,
       isPrimary \in BOOLEAN :
        \E assignmentId \in assignmentIds(timetable, id, teacherId) :
            Respond(IF isPrimary THEN "promote" ELSE "demote",
                    updateAssignment(timetable, user, id, teacherId, isPrimary,
                                     assignmentId))

DeleteClassTeacher(D) ==
    \E user \in D.users, id \in D.classes, teacherId \in D.teachers :
        \E assignmentId \in assignmentIds(timetable, id, teacherId) :
            Respond("removeTeacher",
                    removeTeacher(timetable, user, id, teacherId, assignmentId))

PostClassSubjects(D) ==
    \E user \in D.users, id \in D.classes, subjectIds \in D.subjectLists :
        Respond("addSubjects",
                addSubjects(timetable, nextId, user, id, subjectIds))

\* a read: the response is recorded, the store is the one the handler leaves
Read(op, out, result) ==
    /\ timetable' = out.store
    /\ last' = [op |-> op, result |-> result, id |-> 0]
    /\ UNCHANGED <<nextId, procs, feeRecords, payments>>

\* excludeScheduleId 0 is a request without one
CheckConflict(D) ==
    \E user \in D.users, teacherId \in D.teachers, dayOfWeek \in D.days,
       sl \in D.slots, excludeScheduleId \in {0} \cup knownIds :
        LET out == checkConflicts(timetable, user, teacherId, dayOfWeek,
                                  sl[1], sl[2], excludeScheduleId) IN
        Read("checkConflicts", out,
             IF out.result # "ok" THEN out.result
             ELSE IF out.conflicts # {} THEN "hasConflict"
             ELSE "noConflict")

GetTeacherSchedules(D) ==
    \E user \in D.users, id \in D.teachers, dayOfWeek \in {""} \cup D.days :
        LET out == listForTeacher(timetable, user, id, dayOfWeek) IN
        Read("listForTeacher", out, out.result)

GetClassTimetable(D) ==
    \E classId \in D.classes :
        LET out == listForClass(timetable, classId) IN
        Read("listForClass", out, out.result)

PostClassTeacherRejected(D) ==
    \E user \in D.users, id \in D.classes, d \in assignBodies(D) :
        Respond("assignTeacher", assignTeacherRejected(timetable, user, id, d))

PutClassTeacherRejected(D) ==
    \E user \in D.users, id \in D.classes, teacherId \in D.teachers,
       isPrimary \in BOOLEAN :
        \E assignmentId \in assignmentIds(timetable, id, teacherId) :
            Respond(IF isPrimary THEN "promote" ELSE "demote",
                    updateAssignmentRejected(timetable, user, id, teacherId,
                                             isPrimary, assignmentId))

PostClassSubjectsRejected(D) ==
    \E user \in D.users, id \in D.classes, subjectIds \in D.subjectLists :
        \E j \in 1..Len(subjectIds) :
            Respond("addSubjects",
                    addSubjectsRejected(timetable, nextId, user, id, subjectIds, j))

(***************************************************************************)
(* The specification: requests served one after another.                   *)
(***************************************************************************)
Procs == {"p1", "p2"}

Dom ==
    [users |-> {Admin1},
     classes |-> {"c1"},
     subjects |-> {"s1", "s2"},
     teachers |-> {"t1", "t2"},
     days |-> {"MONDAY"},
     slots |-> {<<900, 1000>>, <<930, 1000>>, <<930, 930>>},
     prims |-> {TRUE},
     subjectLists |-> {<<"s1", "s2">>},
     timetablePatches |-> {[startTime |-> 930], [endTime |-> 930]},
     schedulePatches |-> {[startTime |-> 930], [endTime |-> 930]}]

Init ==
    /\ timetable = {}
    /\ nextId = 1
    /\ last = [op |-> "none", result |-> "none", id |-> 0]
    /\ procs = [p \in Procs |-> Idle]
    /\ feeRecords = {}
    /\ payments = {}

Next ==
    \/ PostTimetable(Dom)
    \/ PutTimetable(Dom)
    \/ DeleteTimetable(Dom)
    \/ PostSchedule(Dom)
    \/ PutSchedule(Dom)
    \/ DeleteSchedule(Dom)
    \/ PostClassTeacher(Dom)
    \/ PutClassTeacher(Dom)
    \/ DeleteClassTeacher(Dom)
    \/ PostClassSubjects(Dom)

Spec == Init /\ [][Next]_vars

(***************************************************************************)
(* Two institutes: the requests of an admin of each, over the classes,     *)
(* subjects and teachers of both.                                          *)
(***************************************************************************)
TenantDom ==
    [users |-> {Admin1, Admin2},
     classes |-> {"c1", "c3"},
     subjects |-> {"s1", "s3"},
     teachers |-> {"t1", "t3"},
     days |-> {"MONDAY"},
     slots |-> {<<900, 1000>>},
     prims |-> {FALSE},
     subjectLists |-> {<<"s1">>, <<"s3">>},
     timetablePatches |-> {[classId |-> "c3"], [subjectId |-> "s3"],
                           [teacherId |-> "t3"], [endTime |-> 930]},
     schedulePatches |-> {[classId |-> "c3"], [endTime |-> 930]}]

NextTenant ==
    \/ PostTimetable(TenantDom)
    \/ PutTimetable(TenantDom)
    \/ DeleteTimetable(TenantDom)
    \/ PostSchedule(TenantDom)
    \/ PutSchedule(TenantDom)
    \/ DeleteSchedule(TenantDom)
    \/ PostClassTeacher(TenantDom)
    \/ PutClassTeacher(TenantDom)
    \/ DeleteClassTeacher(TenantDom)
    \/ PostClassSubjects(TenantDom)

SpecTenant == Init /\ [][NextTenant]_vars

(***************************************************************************)
(* One institute, with patches of every kind, the conflict probe and       *)
(* rejected writes.                                                        *)
(***************************************************************************)
PatchDom ==
    [users |-> {Admin1},
     classes |-> {"c1"},
     subjects |-> {"s1", "s2"},
     teachers |-> {"t1", "t2"},
     days |-> {"MONDAY", "TUESDAY"},
     slots |-> {<<900, 1000>>, <<930, 1000>>},
     prims |-> {TRUE},
     subjectLists |-> {<<"s1", "s2">>},
     timetablePatches |-> {[teacherId |-> "t1"], [subjectId |-> "s2"],
                           [dayOfWeek |-> "MONDAY"], [startTime |-> 930],
                           [endTime |-> 930]},
     schedulePatches |-> {[dayOfWeek |-> "MONDAY"], [endTime |-> 930]}]

NextPatch ==
    \/ PostTimetable(PatchDom)
    \/ PutTimetable(PatchDom)
    \/ DeleteTimetable(PatchDom)
    \/ PostSchedule(PatchDom)
    \/ PutSchedule(PatchDom)
    \/ DeleteSchedule(PatchDom)
    \/ PostClassTeacher(PatchDom)
    \/ PutClassTeacher(PatchDom)
    \/ DeleteClassTeacher(PatchDom)
    \/ PostClassSubjects(PatchDom)
    \/ CheckConflict(PatchDom)
    \/ PostClassTeacherRejected(PatchDom)
    \/ PutClassTeacherRejected(PatchDom)
    \/ PostClassSubjectsRejected(PatchDom)

SpecPatch == Init /\ [][NextPatch]_vars

(***************************************************************************)
(* Reads among the writes: the lists and the probe, callers of every role, *)
(* a teacher of another institute, patches of the room and of the start.   *)
(***************************************************************************)
ReadDom ==
    [users |-> {Admin1, Teacher1},
     classes |-> {"c1"},
     subjects |-> {"s1"},
     teachers |-> {"t1", "t3"},
     days |-> {"MONDAY", "TUESDAY"},
     slots |-> {<<900, 1000>>, <<930, 1030>>},
     prims |-> {TRUE},
     subjectLists |-> {<<"s1">>},
     timetablePatches |-> {[room |-> "R1"], [startTime |-> 930]},
     schedulePatches |-> {[room |-> "R1"], [startTime |-> 930]}]

NextRead ==
    \/ PostSchedule(ReadDom)
    \/ PutSchedule(ReadDom)
    \/ DeleteSchedule(ReadDom)
    \/ PutTimetable(ReadDom)
    \/ CheckConflict(ReadDom)
    \/ GetTeacherSchedules(ReadDom)
    \/ GetClassTimetable(ReadDom)

SpecRead == Init /\ [][NextRead]_vars

(***************************************************************************)
(* Callers of every role on every route that writes.                       *)
(***************************************************************************)
RoleDom ==
    [users |-> {Admin1, Teacher1, Staff1},
     classes |-> {"c1"},
     subjects |-> {"s1"},
     teachers |-> {"t1"},
     days |-> {"MONDAY"},
     slots |-> {<<900, 1000>>, <<1000, 1030>>},
     prims |-> {TRUE},
     subjectLists |-> {<<"s1">>},
     timetablePatches |-> {[room |-> "R1"]},
     schedulePatches |-> {[room |-> "R1"]}]

NextRole ==
    \/ PostTimetable(RoleDom)
    \/ PutTimetable(RoleDom)
    \/ DeleteTimetable(RoleDom)
    \/ PostSchedule(RoleDom)
    \/ PutSchedule(RoleDom)
    \/ DeleteSchedule(RoleDom)
    \/ PostClassTeacher(RoleDom)
    \/ PutClassTeacher(RoleDom)
    \/ DeleteClassTeacher(RoleDom)
    \/ PostClassSubjects(RoleDom)

SpecRole == Init /\ [][NextRole]_vars

(***************************************************************************)
(* Requests in flight.  A handler awaits each prisma call, so the calls of *)
(* two requests interleave: a process takes one step per call that reads   *)
(* or writes prisma.timetable.  No handler opens a transaction.  A request *)
(* that the entity lookups reject answers before it reads the timetable    *)
(* and takes no step here.                                                  *)
(***************************************************************************)
Done(p, result, id) ==
    procs' = [procs EXCEPT ![p] = [@ EXCEPT !.pc = "done", !.result = result, !.id = id]]

Goto(p, pc) == procs' = [procs EXCEPT ![p].pc = pc]

Start(p, op, pc, a) ==
    procs' = [procs EXCEPT ![p] = [pc |-> pc, op |-> op, a |-> a, result |-> "", id |-> 0]]

\* POST /teachers/:id/schedules: the lookups of teacher and class, the time check
ScheduleBegin(D, p) ==
    /\ procs[p].pc = "idle"
    /\ \E user \in D.users, id \in D.teachers, d \in scheduleBodies(D) :
        /\ authorize(user)
        /\ findTeacher(id, user.instituteId)
        /\ findClass(d.classId, user.instituteId)
        /\ d.startTime < d.endTime
        /\ Start(p, "createSchedule", "scan",
                 [teacherId |-> id, classId |-> d.classId, dayOfWeek |-> d.dayOfWeek,
                  startTime |-> d.startTime, endTime |-> d.endTime])
    /\ UNCHANGED <<timetable, nextId, last, feeRecords, payments>>

\* the conflict findFirst
ScheduleScan(p) ==
    /\ procs[p].pc = "scan" /\ procs[p].op = "createSchedule"
    /\ LET a == procs[p].a IN
       IF scheduleConflicts(timetable, a.teacherId, a.dayOfWeek, a.startTime,
                            a.endTime, 0) # {}
       THEN Done(p, "ScheduleConflict", 0)
       ELSE Goto(p, "create")
    /\ UNCHANGED <<timetable, nextId, last, feeRecords, payments>>

\* prisma.timetable.create
ScheduleCreate(p) ==
    /\ procs[p].pc = "create" /\ procs[p].op = "createSchedule"
    /\ LET a == procs[p].a IN
       timetable' = timetable \cup {Row(nextId, a.classId, "", a.teacherId,
                                        a.dayOfWeek, a.startTime, a.endTime,
                                        DefaultIsPrimary)}
    /\ nextId' = nextId + 1
    /\ Done(p, "ok", nextId)
    /\ UNCHANGED <<last, feeRecords, payments>>

\* POST /timetable/classes/:classId: the entity and qualification lookups
TimetableBegin(D, p) ==
    /\ procs[p].pc = "idle"
    /\ \E user \in D.users, classId \in D.classes, b \in timetableBodies(D) :
        /\ authorize(user)
        /\ findClass(classId, user.instituteId)
        /\ findSubject(b.subjectId, user.instituteId)
        /\ findTeacher(b.teacherId, user.instituteId)
        /\ findQualification(b.teacherId, b.subjectId)
        /\ Start(p, "createTimetable", "scan", b)
    /\ UNCHANGED <<timetable, nextId, last, feeRecords, payments>>

\* the double-booking findFirst
TimetableScan(p) ==
    /\ procs[p].pc = "scan" /\ procs[p].op = "createTimetable"
    /\ LET a == procs[p].a IN
       IF existingConflict(timetable, a.teacherId, a.dayOfWeek, a.startTime)
       THEN Done(p, "ScheduleConflict", 0)
       ELSE Goto(p, "scanExact")
    /\ UNCHANGED <<timetable, nextId, last, feeRecords, payments>>

\* the exact-combination findFirst
TimetableScanExact(p) ==
    /\ procs[p].pc = "scanExact"
    /\ IF existingExact(timetable, procs[p].a)
       THEN Done(p, "DuplicateAssignment", 0)
       ELSE Goto(p, "create")
    /\ UNCHANGED <<timetable, nextId, last, feeRecords, payments>>

\* prisma.timetable.create
TimetableCreate(p) ==
    /\ procs[p].pc = "create" /\ procs[p].op = "createTimetable"
    /\ LET a == procs[p].a IN
       timetable' = timetable \cup {Row(nextId, a.classId, a.subjectId, a.teacherId,
                                        a.dayOfWeek, a.startTime, a.endTime,
                                        a.isPrimary)}
    /\ nextId' = nextId + 1
    /\ Done(p, "ok", nextId)
    /\ UNCHANGED <<last, feeRecords, payments>>

\* PUT /classes/:id/teachers/:teacherId: the class lookup
AssignmentBegin(D, p) ==
    /\ procs[p].pc = "idle"
    /\ \E user \in D.users, id \in D.classes, teacherId \in D.teachers,
          isPrimary \in BOOLEAN :
        /\ authorize(user)
        /\ findClass(id, user.instituteId)
        /\ Start(p, IF isPrimary THEN "promote" ELSE "demote", "find",
                 [classId |-> id, teacherId |-> teacherId, isPrimary |-> isPrimary])
    /\ UNCHANGED <<timetable, nextId, last, feeRecords, payments>>

\* the findFirst of the assignment
AssignmentFind(p) ==
    /\ procs[p].pc = "find"
    /\ LET a == procs[p].a IN
       \E assignmentId \in assignmentIds(timetable, a.classId, a.teacherId) :
           IF assignmentId = 0 THEN Done(p, "NotFound", 0)
           ELSE procs' = [procs EXCEPT ![p] =
                    [@ EXCEPT !.pc = IF a.isPrimary THEN "demoteOthers" ELSE "update",
                              !.id = assignmentId]]
    /\ UNCHANGED <<timetable, nextId, last, feeRecords, payments>>

\* the updateMany that demotes the other teachers' rows
AssignmentDemoteOthers(p) ==
    /\ procs[p].pc = "demoteOthers"
    /\ timetable' = demoteOthers(timetable, procs[p].a.classId, procs[p].a.teacherId)
    /\ Goto(p, "update")
    /\ UNCHANGED <<nextId, last, feeRecords, payments>>

\* the update of the assignment row
AssignmentUpdate(p) ==
    /\ procs[p].pc = "update"
    /\ timetable' = setPrimary(timetable, procs[p].id, procs[p].a.isPrimary)
    /\ Done(p, "ok", procs[p].id)
    /\ UNCHANGED <<nextId, last, feeRecords, payments>>

\* POST /classes/:id/teachers: the class lookup with its timetables, the teacher
\* lookup and the subject check made on them
AssignBegin(D, p) ==
    /\ procs[p].pc = "idle"
    /\ \E user \in D.users, id \in D.classes, d \in assignBodies(D) :
        \E firstSubject \in firstSubjects(timetable, id) :
            /\ authorize(user)
            /\ findClass(id, user.instituteId)
            /\ findTeacher(d.teacherId, user.instituteId)
            /\ Start(p, "assignTeacher",
                     IF canTeachSubject(timetable, id, d.teacherId)
                     THEN "findExisting" ELSE "cannotTeach",
                     [classId |-> id, teacherId |-> d.teacherId,
                      isPrimary |-> d.isPrimary, subjectId |-> firstSubject])
    /\ UNCHANGED <<timetable, nextId, last, feeRecords, payments>>

AssignCannotTeach(p) ==
    /\ procs[p].pc = "cannotTeach"
    /\ Done(p, "QualificationError", 0)
    /\ UNCHANGED <<timetable, nextId, last, feeRecords, payments>>

\* the findFirst of an existing assignment
AssignFindExisting(p) ==
    /\ procs[p].pc = "findExisting"
    /\ LET a == procs[p].a IN
       IF findAssignments(timetable, a.classId, a.teacherId) # {}
       THEN Done(p, "AlreadyAssigned", 0)
       ELSE Goto(p, IF a.isPrimary THEN "demoteAll" ELSE "create")
    /\ UNCHANGED <<timetable, nextId, last, feeRecords, payments>>

\* the updateMany that demotes the primaries of the class
AssignDemoteAll(p) ==
    /\ procs[p].pc = "demoteAll"
    /\ timetable' = demoteAll(timetable, procs[p].a.classId)
    /\ Goto(p, "create")
    /\ UNCHANGED <<nextId, last, feeRecords, payments>>

\* prisma.timetable.create
AssignCreate(p) ==
    /\ procs[p].pc = "create" /\ procs[p].op = "assignTeacher"
    /\ LET a == procs[p].a IN
       timetable' = timetable \cup {Row(nextId, a.classId, a.subjectId, a.teacherId,
                                        "MONDAY", 900, 1000, a.isPrimary)}
    /\ nextId' = nextId + 1
    /\ Done(p, "ok", nextId)
    /\ UNCHANGED <<last, feeRecords, payments>>

(***************************************************************************)
(* The specification of two requests in flight, from stores that requests  *)
(* served one after another leave.                                         *)
(***************************************************************************)
ConcDom ==
    [users |-> {Admin1},
     classes |-> {"c1"},
     subjects |-> {"s1"},
     teachers |-> {"t1", "t2"},
     days |-> {"MONDAY"},
     slots |-> {<<900, 930>>, <<900, 1000>>, <<930, 1000>>},
     prims |-> {FALSE}]

Store1 ==
    createTimetable({}, 1, Admin1, "c1",
        [classId |-> "c1", subjectId |-> "s1", teacherId |-> "t1",
         dayOfWeek |-> "MONDAY", startTime |-> 900, endTime |-> 930,
         isPrimary |-> FALSE]).store

Store2 ==
    createTimetable(Store1, 2, Admin1, "c1",
        [classId |-> "c1", subjectId |-> "s1", teacherId |-> "t2",
         dayOfWeek |-> "MONDAY", startTime |-> 900, endTime |-> 930,
         isPrimary |-> FALSE]).store

InitConc ==
    /\ timetable \in {{}, Store1, Store2}
    /\ nextId = Cardinality(timetable) + 1
    /\ last = [op |-> "none", result |-> "none", id |-> 0]
    /\ procs = [p \in Procs |-> Idle]
    /\ feeRecords = {}
    /\ payments = {}

NextConc ==
    \E p \in Procs :
        \/ ScheduleBegin(ConcDom, p)
        \/ ScheduleScan(p)
        \/ ScheduleCreate(p)
        \/ TimetableBegin(ConcDom, p)
        \/ TimetableScan(p)
        \/ TimetableScanExact(p)
        \/ TimetableCreate(p)
        \/ AssignmentBegin(ConcDom, p)
        \/ AssignmentFind(p)
        \/ AssignmentDemoteOthers(p)
        \/ AssignmentUpdate(p)
        \/ AssignBegin(ConcDom, p)
        \/ AssignCannotTeach(p)
        \/ AssignFindExisting(p)
        \/ AssignDemoteAll(p)
        \/ AssignCreate(p)

SpecConc == InitConc /\ [][NextConc]_vars

(***************************************************************************)
(* Properties.                                                             *)
(***************************************************************************)
\* the active rows of a store
Active(store) == {e \in store : e.isActive}

\* half-open overlap of two ranges: a.start < b.end and b.start < a.end
Overlaps(aStart, aEnd, bStart, bEnd) == aStart < bEnd /\ bStart < aEnd

\* the active rows of a teacher on a day
TeacherDay(store, teacherId, dayOfWeek) ==
    {e \in Active(store) : e.teacherId = teacherId /\ e.dayOfWeek = dayOfWeek}

\* no two active rows of one teacher on one day overlap
NoOverlap(store) ==
    \A a \in Active(store), b \in Active(store) :
        (/\ a.id # b.id
         /\ a.teacherId \in Teachers
         /\ a.teacherId = b.teacherId
         /\ a.dayOfWeek = b.dayOfWeek)
        => ~Overlaps(a.startTime, a.endTime, b.startTime, b.endTime)

\* the active primary rows of a class
Primaries(store, classId) ==
    {e \in Active(store) : e.classId = classId /\ e.isPrimary}

\* a timetable create request the entity and qualification lookups accept
Accepted(user, classId, b) ==
    /\ authorize(user)
    /\ findClass(classId, user.instituteId)
    /\ findSubject(b.subjectId, user.instituteId)
    /\ findTeacher(b.teacherId, user.instituteId)
    /\ findQualification(b.teacherId, b.subjectId)

\* a schedule create request the entity lookups accept
AcceptedSchedule(user, id, d) ==
    /\ authorize(user)
    /\ findTeacher(id, user.instituteId)
    /\ findClass(d.classId, user.instituteId)

\* C1: for every teacher and day, no two stored active entries of that teacher
\* on that day have overlapping half-open intervals [startTime, endTime).
C1_NoTeacherOverlap == NoOverlap(timetable)

\* the rows two finished requests found in the store: those neither created
RowsBefore(p, q) ==
    {e \in timetable : e.id # procs[p].id /\ e.id # procs[q].id}

\* two finished schedule creates for one teacher and day with overlapping
\* ranges, each free of conflict with the rows it found in the store
OverlappingCreates(p, q) ==
    /\ p # q
    /\ procs[p].pc = "done" /\ procs[q].pc = "done"
    /\ procs[p].op = "createSchedule" /\ procs[q].op = "createSchedule"
    /\ procs[p].a.teacherId = procs[q].a.teacherId
    /\ procs[p].a.dayOfWeek = procs[q].a.dayOfWeek
    /\ Overlaps(procs[p].a.startTime, procs[p].a.endTime,
                procs[q].a.startTime, procs[q].a.endTime)
    /\ \A e \in TeacherDay(RowsBefore(p, q), procs[p].a.teacherId,
                           procs[p].a.dayOfWeek) :
           /\ ~Overlaps(e.startTime, e.endTime,
                        procs[p].a.startTime, procs[p].a.endTime)
           /\ ~Overlaps(e.startTime, e.endTime,
                        procs[q].a.startTime, procs[q].a.endTime)

\* C2: of two concurrent create requests for the same teacher and day with
\* overlapping ranges exactly one succeeds, the other fails with
\* ScheduleConflict or ConcurrencyConflict, and the final store holds no
\* overlapping pair of that teacher and day.
C2_OneOfTwoCreatesSucceeds ==
    \A p \in Procs, q \in Procs :
        OverlappingCreates(p, q)
        => /\ \/ /\ procs[p].result = "ok"
                 /\ procs[q].result \in {"ScheduleConflict", "ConcurrencyConflict"}
              \/ /\ procs[q].result = "ok"
                 /\ procs[p].result \in {"ScheduleConflict", "ConcurrencyConflict"}
           /\ NoOverlap(timetable)

\* C5: two concurrent promotions to primary on one class leave the class, once
\* both have finished, with exactly one primary entry.
C5_OnePrimaryAfterTwoPromotions ==
    \A p \in Procs, q \in Procs :
        (/\ p # q
         /\ procs[p].pc = "done" /\ procs[q].pc = "done"
         /\ procs[p].op = "promote" /\ procs[q].op = "promote"
         /\ procs[p].result = "ok" /\ procs[q].result = "ok"
         /\ procs[p].a.classId = procs[q].a.classId)
        => Cardinality(Primaries(timetable, procs[p].a.classId)) = 1

\* C3: each class has at most one active entry with isPrimary = true.
C3_AtMostOnePrimary ==
    \A c \in Classes : Cardinality(Primaries(timetable, c)) <= 1

\* C4: after a successful promotion to primary of entry E in class C, exactly
\* one active entry of C is primary and it is E.
C4_PromotedIsOnlyPrimary ==
    (last.op = "promote" /\ last.result = "ok")
    => \A e \in timetable :
           e.id = last.id => Primaries(timetable, e.classId) = {e}

\* C6: a create request overlapping (half-open) an existing active entry of the
\* same teacher and day, with a different startTime, fails with
\* ScheduleConflict and leaves the store unchanged.
C6_OverlapRejected ==
    /\ \A user \in Dom.users, classId \in Dom.classes, b \in timetableBodies(Dom) :
        (/\ Accepted(user, classId, b)
         /\ b.startTime < b.endTime
         /\ \E e \in TeacherDay(timetable, b.teacherId, b.dayOfWeek) :
                /\ e.startTime # b.startTime
                /\ Overlaps(e.startTime, e.endTime, b.startTime, b.endTime))
        => LET out == createTimetable(timetable, nextId, user, classId, b) IN
           out.result = "ScheduleConflict" /\ out.store = timetable
    /\ \A user \in Dom.users, id \in Dom.teachers, d \in scheduleBodies(Dom) :
        (/\ AcceptedSchedule(user, id, d)
         /\ d.startTime < d.endTime
         /\ \E e \in TeacherDay(timetable, id, d.dayOfWeek) :
                /\ e.startTime # d.startTime
                /\ Overlaps(e.startTime, e.endTime, d.startTime, d.endTime))
        => LET out == createSchedule(timetable, nextId, user, id, d) IN
           out.result = "ScheduleConflict" /\ out.store = timetable

\* C7: every create request with startTime >= endTime fails with
\* ValidationError and leaves the store unchanged, on every create route.
C7_DegenerateRejected ==
    /\ \A user \in Dom.users, classId \in Dom.classes, b \in timetableBodies(Dom) :
        (Accepted(user, classId, b) /\ b.startTime >= b.endTime)
        => LET out == createTimetable(timetable, nextId, user, classId, b) IN
           out.result = "ValidationError" /\ out.store = timetable
    /\ \A user \in Dom.users, id \in Dom.teachers, d \in scheduleBodies(Dom) :
        (AcceptedSchedule(user, id, d) /\ d.startTime >= d.endTime)
        => LET out == createSchedule(timetable, nextId, user, id, d) IN
           out.result = "ValidationError" /\ out.store = timetable

\* C8: every active stored entry satisfies startTime < endTime.
C8_StartBeforeEnd ==
    \A e \in Active(timetable) : e.startTime < e.endTime

\* a range that touches a row of the teacher and day at a boundary and overlaps
\* none of them
TouchesOnly(store, teacherId, dayOfWeek, startTime, endTime) ==
    /\ startTime < endTime
    /\ \E e \in TeacherDay(store, teacherId, dayOfWeek) :
           startTime = e.endTime \/ endTime = e.startTime
    /\ \A e \in TeacherDay(store, teacherId, dayOfWeek) :
           ~Overlaps(e.startTime, e.endTime, startTime, endTime)

\* C9: a create request whose range only touches an existing entry of the same
\* teacher and day at a boundary is not rejected as a conflict and is persisted.
C9_AdjacentAccepted ==
    /\ \A user \in Dom.users, classId \in Dom.classes, b \in timetableBodies(Dom) :
        (/\ Accepted(user, classId, b)
         /\ TouchesOnly(timetable, b.teacherId, b.dayOfWeek, b.startTime, b.endTime))
        => LET out == createTimetable(timetable, nextId, user, classId, b) IN
           /\ out.result = "ok"
           /\ \E e \in out.store \ timetable :
                  /\ e.teacherId = b.teacherId /\ e.dayOfWeek = b.dayOfWeek
                  /\ e.startTime = b.startTime /\ e.endTime = b.endTime
    /\ \A user \in Dom.users, id \in Dom.teachers, d \in scheduleBodies(Dom) :
        (/\ AcceptedSchedule(user, id, d)
         /\ TouchesOnly(timetable, id, d.dayOfWeek, d.startTime, d.endTime))
        => LET out == createSchedule(timetable, nextId, user, id, d) IN
           /\ out.result = "ok"
           /\ \E e \in out.store \ timetable :
                  /\ e.teacherId = id /\ e.dayOfWeek = d.dayOfWeek
                  /\ e.startTime = d.startTime /\ e.endTime = d.endTime

\* C10: a create request for a teacher and a subject the teacher-subject
\* mapping does not pair fails with QualificationError and leaves the store
\* unchanged.
C10_UnqualifiedRejected ==
    /\ \A user \in Dom.users, classId \in Dom.classes, b \in timetableBodies(Dom) :
        (/\ authorize(user)
         /\ findClass(classId, user.instituteId)
         /\ findSubject(b.subjectId, user.instituteId)
         /\ findTeacher(b.teacherId, user.instituteId)
         /\ <<b.teacherId, b.subjectId>> \notin teacherSubject)
        => LET out == createTimetable(timetable, nextId, user, classId, b) IN
           out.result = "QualificationError" /\ out.store = timetable
    /\ (last.op = "createTimetable" /\ last.result = "ok")
       => \A e \in timetable :
              e.id = last.id => <<e.teacherId, e.subjectId>> \in teacherSubject

\* an unqualified request was made against a store holding rows, and rejected
C10_Witness ==
    /\ last.op = "createTimetable"
    /\ last.result = "QualificationError"
    /\ timetable # {}

\* the patches C11 and C12 put to the timetable update route: one field each
FieldPatches ==
    {[teacherId |-> t] : t \in PatchDom.teachers}
    \cup {[subjectId |-> su] : su \in PatchDom.subjects}
    \cup {[dayOfWeek |-> d] : d \in PatchDom.days}
    \cup {[startTime |-> 930], [endTime |-> 930], [endTime |-> 1000]}

\* C11: after a successful Update of an entry whose teacher was qualified for
\* its subject, the merged entry (existing fields overridden by the patch) has
\* a teacher who is qualified for its subject, also when the patch changes
\* only teacherId or only subjectId.
C11_UpdateKeepsQualified ==
    \A user \in PatchDom.users, e \in timetable, p \in FieldPatches :
        LET merged == applyData(e, p)
            out == updateTimetable(timetable, user, e.id, p)
        IN (/\ findQualification(e.teacherId, e.subjectId)
            /\ out.result = "ok")
           => \A m \in out.store :
                  m.id = e.id => /\ m = merged
                                 /\ findQualification(m.teacherId, m.subjectId)

\* the rows other than id that overlap a candidate of a teacher and day
OverlappingRows(store, id, teacherId, dayOfWeek, startTime, endTime) ==
    {o \in TeacherDay(store, teacherId, dayOfWeek) :
        /\ o.id # id
        /\ Overlaps(o.startTime, o.endTime, startTime, endTime)}

\* C12: in a store free of overlaps, an Update whose merged candidate overlaps
\* another active entry of the merged teacher on the merged day fails with
\* ScheduleConflict and leaves the store unchanged, whichever field the patch
\* changes, on the timetable and on the schedule update route.
C12_UpdateOverlapRejected ==
    /\ \A user \in PatchDom.users, e \in timetable, p \in FieldPatches :
        LET m == applyData(e, p)
            out == updateTimetable(timetable, user, e.id, p)
        IN (/\ NoOverlap(timetable)
            /\ C8_StartBeforeEnd
            /\ m.startTime < m.endTime
            /\ m.teacherId \in Teachers
            /\ OverlappingRows(timetable, e.id, m.teacherId, m.dayOfWeek,
                               m.startTime, m.endTime) # {})
           => out.result = "ScheduleConflict" /\ out.store = timetable
    /\ \A user \in PatchDom.users, e \in timetable,
          p \in {q \in FieldPatches : ~Has(q, "teacherId") /\ ~Has(q, "subjectId")} :
        LET m == applyData(e, p)
            out == updateSchedule(timetable, user, e.id, p)
        IN (/\ NoOverlap(timetable)
            /\ C8_StartBeforeEnd
            /\ m.startTime < m.endTime
            /\ m.teacherId \in Teachers
            /\ OverlappingRows(timetable, e.id, m.teacherId, m.dayOfWeek,
                               m.startTime, m.endTime) # {})
           => out.result = "ScheduleConflict" /\ out.store = timetable

\* the class, subject and teacher a row references exist in an institute
InTenant(e, instituteId) ==
    /\ findClass(e.classId, instituteId)
    /\ findSubject(e.subjectId, instituteId)
    /\ findTeacher(e.teacherId, instituteId)

\* C13: every entry written by a successful Create or Update references a
\* class, a subject and a teacher that exist and belong to the caller's
\* tenant: the persisted classId is the one that was tenant-checked, and an
\* Update of an entry of the caller's tenant stores only ids of that tenant.
C13_WrittenRowsInTenant ==
    /\ \A user \in TenantDom.users, classId \in TenantDom.classes,
          b \in timetableBodies(TenantDom) :
        LET out == createTimetable(timetable, nextId, user, classId, b) IN
        out.result = "ok"
        => \A e \in out.store \ timetable : InTenant(e, user.instituteId)
    /\ \A user \in TenantDom.users, e \in timetable,
          p \in TenantDom.timetablePatches :
        LET out == updateTimetable(timetable, user, e.id, p) IN
        (InTenant(e, user.instituteId) /\ out.result = "ok")
        => \A m \in out.store : m.id = e.id => InTenant(m, user.instituteId)

\* a row whose class and teacher belong to another institute than the caller's
Foreign(e, user) ==
    /\ e.classId \in Classes /\ classInstitute[e.classId] # user.instituteId
    /\ e.teacherId \in Teachers /\ teacherInstitute[e.teacherId] # user.instituteId

\* C14: an Update or Delete by a caller of one tenant on an entry whose class
\* and teacher belong to another tenant fails with NotFound and leaves the
\* store unchanged, on every update and delete route.
C14_ForeignEntryNotFound ==
    \A user \in TenantDom.users, e \in timetable :
        Foreign(e, user)
        => /\ \A p \in TenantDom.timetablePatches :
                  updateTimetable(timetable, user, e.id, p)
                      = Outcome(timetable, "NotFound", 0)
           /\ deleteTimetable(timetable, user, e.id)
                  = Outcome(timetable, "NotFound", 0)
           /\ \A p \in TenantDom.schedulePatches :
                  updateSchedule(timetable, user, e.id, p)
                      = Outcome(timetable, "NotFound", 0)
           /\ deleteSchedule(timetable, user, e.id)
                  = Outcome(timetable, "NotFound", 0)

\* C15: after a successful Delete(id) the entry is still in the store, with
\* isActive = false.
C15_DeleteKeepsInactiveRow ==
    (last.op \in {"deleteTimetable", "deleteSchedule"} /\ last.result = "ok")
    => \E e \in timetable : e.id = last.id /\ ~e.isActive

\* two rows agree on (classId, subjectId, teacherId, dayOfWeek, startTime)
SameCombination(a, b) ==
    /\ a.classId = b.classId
    /\ a.subjectId = b.subjectId
    /\ a.teacherId = b.teacherId
    /\ a.dayOfWeek = b.dayOfWeek
    /\ a.startTime = b.startTime

\* C16: no two active stored entries agree on all of (classId, subjectId,
\* teacherId, dayOfWeek, startTime).
C16_NoDuplicateCombination ==
    \A a \in Active(timetable), b \in Active(timetable) :
        a.id # b.id => ~SameCombination(a, b)

\* C17: a Create request that exactly duplicates an existing active entry in
\* (classId, subjectId, teacherId, dayOfWeek, startTime) fails with
\* DuplicateAssignment, not with ScheduleConflict.
C17_DuplicateReported ==
    \A user \in Dom.users, classId \in Dom.classes, b \in timetableBodies(Dom) :
        (/\ Accepted(user, classId, b)
         /\ \E e \in Active(timetable) : SameCombination(e, b))
        => createTimetable(timetable, nextId, user, classId, b).result
               = "DuplicateAssignment"

\* the three-field patch that moves a row to a day and time range
MovePatch(dayOfWeek, startTime, endTime) ==
    [dayOfWeek |-> dayOfWeek, startTime |-> startTime, endTime |-> endTime]

\* C18: for every candidate (teacherId, dayOfWeek, startTime, endTime,
\* excludeId) with startTime < endTime, CheckConflict reports a conflict if and
\* only if a Create for that teacher, day and time range (or an Update of
\* excludeId to them) is rejected for a schedule conflict.
C18_ProbeAgreesWithWrites ==
    \A user \in PatchDom.users, t \in PatchDom.teachers, d \in PatchDom.days,
       sl \in PatchDom.slots :
        LET probe == checkConflicts(timetable, user, t, d, sl[1], sl[2], 0) IN
        /\ \A classId \in PatchDom.classes, b \in timetableBodies(PatchDom) :
               (/\ Accepted(user, classId, b)
                /\ b.teacherId = t /\ b.dayOfWeek = d
                /\ b.startTime = sl[1] /\ b.endTime = sl[2])
               => (probe.conflicts # {}
                   <=> createTimetable(timetable, nextId, user, classId, b).result
                           = "ScheduleConflict")
        /\ \A classId \in PatchDom.classes :
               probe.conflicts # {}
               <=> createSchedule(timetable, nextId, user, t,
                                  [classId |-> classId, dayOfWeek |-> d,
                                   startTime |-> sl[1], endTime |-> sl[2]]).result
                       = "ScheduleConflict"
        /\ \A e \in timetable :
               e.teacherId = t
               => LET probeEx == checkConflicts(timetable, user, t, d, sl[1],
                                                sl[2], e.id) IN
                  /\ probeEx.conflicts # {}
                     <=> updateSchedule(timetable, user, e.id,
                                        MovePatch(d, sl[1], sl[2])).result
                             = "ScheduleConflict"
                  /\ probeEx.conflicts # {}
                     <=> updateTimetable(timetable, user, e.id,
                                         MovePatch(d, sl[1], sl[2])).result
                             = "ScheduleConflict"

\* C19: over a store free of overlaps whose rows all have startTime < endTime,
\* when a Create or Update is rejected for a schedule conflict, the error names
\* every active entry of that teacher and day that overlaps the candidate.
C19_AllConflictsReported ==
    (NoOverlap(timetable) /\ C8_StartBeforeEnd) =>
    /\ \A user \in Dom.users, id \in Dom.teachers, d \in scheduleBodies(Dom) :
        createSchedule(timetable, nextId, user, id, d).result = "ScheduleConflict"
        => \A report \in scheduleConflictReports(timetable, id, d.dayOfWeek,
                                                 d.startTime, d.endTime, 0) :
               report = OverlappingRows(timetable, 0, id, d.dayOfWeek,
                                        d.startTime, d.endTime)
    /\ \A user \in Dom.users, e \in timetable, p \in Dom.schedulePatches :
        LET m == applyData(e, p) IN
        updateSchedule(timetable, user, e.id, p).result = "ScheduleConflict"
        => \A report \in scheduleConflictReports(timetable, m.teacherId,
                                                 m.dayOfWeek, m.startTime,
                                                 m.endTime, e.id) :
               report = OverlappingRows(timetable, e.id, m.teacherId,
                                        m.dayOfWeek, m.startTime, m.endTime)
    /\ \A user \in Dom.users, classId \in Dom.classes, b \in timetableBodies(Dom) :
        createTimetable(timetable, nextId, user, classId, b).result
            = "ScheduleConflict"
        => timetableConflictReport
               = OverlappingRows(timetable, 0, b.teacherId, b.dayOfWeek,
                                 b.startTime, b.endTime)

\* a request that failed left the store as it was
Unchanged(out) == out.result # "ok" => out.store = timetable

\* C20: any request that fails, at any step of its handler, leaves the stored
\* timetable as it was before the request, also when assign-teacher, the
\* assignment update or add-subjects fails after an earlier write.
C20_FailureLeavesStore ==
    /\ \A user \in PatchDom.users, id \in PatchDom.classes,
          d \in assignBodies(PatchDom) :
        Unchanged(assignTeacherRejected(timetable, user, id, d))
    /\ \A user \in PatchDom.users, id \in PatchDom.classes,
          teacherId \in PatchDom.teachers, isPrimary \in BOOLEAN :
        \A assignmentId \in assignmentIds(timetable, id, teacherId) :
            Unchanged(updateAssignmentRejected(timetable, user, id, teacherId,
                                               isPrimary, assignmentId))
    /\ \A user \in PatchDom.users, id \in PatchDom.classes,
          subjectIds \in PatchDom.subjectLists :
        \A j \in 1..Len(subjectIds) :
            Unchanged(addSubjectsRejected(timetable, nextId, user, id,
                                          subjectIds, j))
    /\ \A user \in PatchDom.users, classId \in PatchDom.classes,
          b \in timetableBodies(PatchDom) :
        Unchanged(createTimetable(timetable, nextId, user, classId, b))
    /\ \A user \in PatchDom.users, id \in PatchDom.teachers,
          d \in scheduleBodies(PatchDom) :
        Unchanged(createSchedule(timetable, nextId, user, id, d))
    /\ \A user \in PatchDom.users, id \in knownIds :
        /\ \A p \in PatchDom.timetablePatches :
               Unchanged(updateTimetable(timetable, user, id, p))
        /\ \A p \in PatchDom.schedulePatches :
               Unchanged(updateSchedule(timetable, user, id, p))
        /\ Unchanged(deleteTimetable(timetable, user, id))
        /\ Unchanged(deleteSchedule(timetable, user, id))

\* C28: over a store free of overlaps, after remove-teacher-from-class(C, T)
\* succeeds, no stored entry with classId = C and teacherId = T remains,
\* whatever number of entries T had in C.
C28_RemoveLeavesNoRow ==
    (NoOverlap(timetable) /\ C8_StartBeforeEnd) =>
    \A user \in PatchDom.users, id \in PatchDom.classes,
       teacherId \in PatchDom.teachers :
        \A assignmentId \in assignmentIds(timetable, id, teacherId) :
            LET out == removeTeacher(timetable, user, id, teacherId, assignmentId) IN
            out.result = "ok" => findAssignments(out.store, id, teacherId) = {}

\* C26: for every store and every candidate (teacher, day, startTime, endTime)
\* with startTime < endTime, the timetable create route rejects the candidate
\* for a teacher time conflict if and only if the schedule create route does.
C26_CreateRoutesAgree ==
    \A user \in Dom.users, classId \in Dom.classes, b \in timetableBodies(Dom) :
        (/\ Accepted(user, classId, b)
         /\ b.startTime < b.endTime)
        => (createTimetable(timetable, nextId, user, classId, b).result
                = "ScheduleConflict"
            <=> createSchedule(timetable, nextId, user, b.teacherId,
                               [classId |-> b.classId, dayOfWeek |-> b.dayOfWeek,
                                startTime |-> b.startTime,
                                endTime |-> b.endTime]).result
                    = "ScheduleConflict")


(***************************************************************************)
(* Ranges of a probe: every pair of times, a start after its end included, *)
(* as the probe checks only that the four fields are present.              *)
(***************************************************************************)
Times == {900, 930, 1000, 1030}

Ranges == {r \in Times \X Times : TRUE}

ValidRanges == {r \in Ranges : r[1] < r[2]}

\* a range in the place of a stored row
AsRow(r) == [startTime |-> r[1], endTime |-> r[2]]

\* C23: for every stored entry a and every range b a probe may carry, the
\* three-clause predicate applied to (existing = a, candidate = b) gives the
\* same result as applied to (existing = b, candidate = a).
C23_OverlapSymmetric ==
    \A a \in timetable, b \in Ranges :
        timeConflictClause(a, b[1], b[2])
            <=> timeConflictClause(AsRow(b), a.startTime, a.endTime)

\* C24: for every stored entry e with e.start < e.end and every candidate
\* range n with n.start < n.end, the three-clause predicate is true exactly
\* when e.start < n.end and n.start < e.end.
C24_ThreeClauseIsHalfOpen ==
    \A e \in timetable, n \in ValidRanges :
        e.startTime < e.endTime =>
            (timeConflictClause(e, n[1], n[2])
                <=> (e.startTime < n[2] /\ n[1] < e.endTime))

\* a probe answered with a conflict over a store holding a valid entry that
\* one valid range overlaps and another only touches
C24_Witness ==
    /\ last.op = "checkConflicts" /\ last.result = "hasConflict"
    /\ \E e \in timetable, n \in ValidRanges, m \in ValidRanges :
        /\ e.startTime < e.endTime
        /\ timeConflictClause(e, n[1], n[2])
        /\ m[1] = e.endTime
        /\ ~timeConflictClause(e, m[1], m[2])

(***************************************************************************)
(* The lists.                                                              *)
(***************************************************************************)
WeekDays ==
    <<"MONDAY", "TUESDAY", "WEDNESDAY", "THURSDAY", "FRIDAY", "SATURDAY", "SUNDAY">>

DayRank(d) == CHOOSE i \in 1..Len(WeekDays) : WeekDays[i] = d

InOrder(data) ==
    \A i, j \in 1..Len(data) :
        i < j => \/ DayRank(data[i].dayOfWeek) < DayRank(data[j].dayOfWeek)
                 \/ /\ data[i].dayOfWeek = data[j].dayOfWeek
                    /\ data[i].startTime <= data[j].startTime

\* data holds each of the rows once and nothing else
Lists(data, rows) ==
    /\ Len(data) = Cardinality(rows)
    /\ {data[i] : i \in 1..Len(data)} = rows

C22_ProbeLeavesStore ==
    \A user \in ReadDom.users, teacherId \in {"", "t1", "t3", "t9"},
       dayOfWeek \in {""} \cup ReadDom.days, r \in Ranges,
       excludeScheduleId \in {0} \cup knownIds :
        checkConflicts(timetable, user, teacherId, dayOfWeek, r[1], r[2],
                       excludeScheduleId).store = timetable

\* a probe answered with a conflict over a store holding entries
C22_Witness ==
    /\ last.op = "checkConflicts" /\ last.result = "hasConflict"
    /\ timetable # {}
    /\ \E r \in Ranges :
        checkConflicts(timetable, Admin1, "t1", "MONDAY", r[1], r[2], 0).conflicts # {}

(***************************************************************************)
(* Updates and the entry itself.                                           *)
(***************************************************************************)
\* the entry of id with the fields of the patch
Merged(id, p) == applyData(CHOOSE e \in timetable : e.id = id, p)

\* no other stored entry of the teacher on the day overlaps the merged entry
OnlyItself(id, p) ==
    \A o \in timetable :
        (/\ o.id # id
         /\ o.teacherId = Merged(id, p).teacherId
         /\ o.dayOfWeek = Merged(id, p).dayOfWeek)
        => ~Overlaps(o.startTime, o.endTime,
                     Merged(id, p).startTime, Merged(id, p).endTime)

\* C25: over a store free of overlaps, an update whose merged entry is a
\* valid range that overlaps no entry other than the updated one (a patch
\* of the room only, or a move inside or across the entry's own range) is
\* not rejected for a schedule conflict, by either update route.
C25_NoSelfConflict ==
    (NoOverlap(timetable) /\ C8_StartBeforeEnd) =>
    \A user \in ReadDom.users, e \in timetable :
        /\ \A p \in ReadDom.schedulePatches :
            (Merged(e.id, p).startTime < Merged(e.id, p).endTime /\ OnlyItself(e.id, p))
            => updateSchedule(timetable, user, e.id, p).result # "ScheduleConflict"
        /\ \A p \in ReadDom.timetablePatches :
            (Merged(e.id, p).startTime < Merged(e.id, p).endTime /\ OnlyItself(e.id, p))
            => updateTimetable(timetable, user, e.id, p).result # "ScheduleConflict"

\* an update of the room alone went through and left the entry's range
C25_Witness ==
    /\ last.op = "updateSchedule" /\ last.result = "ok"
    /\ \E e \in timetable :
        /\ e.id = last.id /\ e.room = "R1"
        /\ e.teacherId = "t1" /\ e.startTime < e.endTime

(***************************************************************************)
(* Callers that are no admin.                                              *)
(***************************************************************************)
NonAdmins == {u \in RoleDom.users : u.role \notin {"SUPER_ADMIN", "ADMIN"}}

\* the request is answered 403 and the store is the one it found
Refused(out) == out.result = "Forbidden" /\ out.store = timetable

\* C27: every create, update, delete, assign, promote, demote, remove and
\* add-subjects request of a caller whose role is neither SUPER_ADMIN nor
\* ADMIN is answered 403 and leaves the store as it was.
C27_NonAdminRefused ==
    \A user \in NonAdmins :
        /\ \A classId \in RoleDom.classes, b \in timetableBodies(RoleDom) :
               Refused(createTimetable(timetable, nextId, user, classId, b))
        /\ \A id \in RoleDom.teachers, d \in scheduleBodies(RoleDom) :
               Refused(createSchedule(timetable, nextId, user, id, d))
        /\ \A id \in knownIds :
               /\ \A p \in RoleDom.timetablePatches :
                      Refused(updateTimetable(timetable, user, id, p))
               /\ \A p \in RoleDom.schedulePatches :
                      Refused(updateSchedule(timetable, user, id, p))
               /\ Refused(deleteTimetable(timetable, user, id))
               /\ Refused(deleteSchedule(timetable, user, id))
        /\ \A id \in RoleDom.classes :
               /\ \A d \in assignBodies(RoleDom), fs \in firstSubjects(timetable, id) :
                      Refused(assignTeacher(timetable, nextId, user, id, d, fs))
               /\ \A teacherId \in RoleDom.teachers, isPrimary \in BOOLEAN,
                     assignmentId \in {0} \cup knownIds :
                      /\ Refused(updateAssignment(timetable, user, id, teacherId,
                                                  isPrimary, assignmentId))
                      /\ Refused(removeTeacher(timetable, user, id, teacherId,
                                               assignmentId))
               /\ \A subjectIds \in RoleDom.subjectLists :
                      Refused(addSubjects(timetable, nextId, user, id, subjectIds))

\* a request was answered 403 over a store holding entries
C27_Witness ==
    /\ last.result = "Forbidden"
    /\ last.op \in {"createTimetable", "deleteSchedule", "assignTeacher"}
    /\ timetable # {}

(***************************************************************************)
(* Fee records and payments.  Amounts are kept in hundredths: amount,      *)
(* amountPaid and amountDue are Decimal columns, and the handler turns     *)
(* them into JavaScript numbers before it adds and subtracts.              *)
(***************************************************************************)
MaxFees == 2

MaxPayments == 3

studentInstitute == [st1 |-> "i1", st3 |-> "i2"]

Students == DOMAIN studentInstitute

\* prisma.student.findFirst({ where: { id, instituteId } })
findStudent(studentId, instituteId) ==
    studentId \in Students /\ studentInstitute[studentId] = instituteId

FeeOutcome(fees, pays, result, id) ==
    [feeRecords |-> fees, payments |-> pays, result |-> result, id |-> id]

\* POST /fees
createFeeRecord(fees, pays, nid, user, studentId, amount) ==
    IF ~authorize(user) THEN FeeOutcome(fees, pays, "Forbidden", 0)
    ELSE IF ~findStudent(studentId, user.instituteId)
        THEN FeeOutcome(fees, pays, "NotFound", 0)
    ELSE FeeOutcome(fees \cup {[id |-> nid, instituteId |-> user.instituteId,
                                studentId |-> studentId, amount |-> amount,
                                amountPaid |-> 0, amountDue |-> amount,
                                status |-> "PENDING"]},
                    pays, "ok", nid)

\* prisma.feeRecord.findFirst({ where: { id, instituteId } })
findFeeRecord(fees, id, instituteId) ==
    {f \in fees : f.id = id /\ f.instituteId = instituteId}

\* the pairs <<x, y>> of hundredths, among the multiples of 10 up to 60, whose
\* sum as JavaScript numbers is not the number of x + y:
\* 0.1 + 0.2 is 0.30000000000000004, 0.2 + 0.4 is 0.6000000000000001,
\* 0.3 + 0.6 is 0.8999999999999999
inexactSums ==
    {<<10, 20>>, <<20, 10>>, <<20, 40>>, <<40, 20>>, <<30, 60>>, <<60, 30>>}

\* newAmountDue === 0, with newAmountDue = totalAmount - (currentAmountPaid + amount)
newAmountDueIsZero(totalAmount, currentAmountPaid, amount) ==
    /\ currentAmountPaid + amount = totalAmount
    /\ <<currentAmountPaid, amount>> \notin inexactSums

\* the data of tx.feeRecord.update, computed from the feeRecord the handler read;
\* the columns keep the hundredths of the numbers
feeUpdate(feeRecord, amount) ==
    LET newAmountPaid == feeRecord.amountPaid + amount
        newAmountDue == feeRecord.amount - newAmountPaid
    IN [amountPaid |-> newAmountPaid,
        amountDue |-> newAmountDue,
        status |-> IF newAmountDueIsZero(feeRecord.amount, feeRecord.amountPaid, amount)
                       THEN "PAID"
                   ELSE IF newAmountPaid > 0 THEN "PARTIAL"
                   ELSE "PENDING"]

\* the checks between the findFirst and the transaction: "" when they pass
paymentRejection(found, amount) ==
    IF found = {} THEN "NotFound"
    ELSE LET feeRecord == CHOOSE f \in found : TRUE IN
         IF feeRecord.status = "PAID" THEN "AlreadyPaid"
         ELSE IF amount > feeRecord.amountDue THEN "ExceedsDue"
         ELSE ""

\* prisma.$transaction: tx.payment.create, then tx.feeRecord.update({ where: { id } })
paymentTransaction(fees, pays, pid, feeRecord, amount) ==
    FeeOutcome({IF f.id = feeRecord.id
                    THEN [f EXCEPT !.amountPaid = feeUpdate(feeRecord, amount).amountPaid,
                                   !.amountDue = feeUpdate(feeRecord, amount).amountDue,
                                   !.status = feeUpdate(feeRecord, amount).status]
                    ELSE f : f \in fees},
               pays \cup {[id |-> pid, feeRecordId |-> feeRecord.id, amount |-> amount]},
               "ok", pid)

\* POST /fees/:id/payment, served with no other request in between
recordPayment(fees, pays, pid, user, id, amount) ==
    IF ~authorize(user) THEN FeeOutcome(fees, pays, "Forbidden", 0)
    ELSE LET found == findFeeRecord(fees, id, user.instituteId) IN
         IF paymentRejection(found, amount) # ""
            THEN FeeOutcome(fees, pays, paymentRejection(found, amount), 0)
         ELSE paymentTransaction(fees, pays, pid, CHOOSE f \in found : TRUE, amount)

FeeDom ==
    [users |-> {Admin1, Teacher1},
     students |-> {"st1", "st3"},
     amounts |-> {20, 30},
     paid |-> {10, 20}]

FeeRespond(op, out) ==
    /\ Cardinality(out.feeRecords) <= MaxFees
    /\ Cardinality(out.payments) <= MaxPayments
    /\ feeRecords' = out.feeRecords
    /\ payments' = out.payments
    /\ last' = [op |-> op, result |-> out.result, id |-> out.id]
    /\ UNCHANGED <<timetable, nextId, procs>>

PostFee(D) ==
    \E user \in D.users, studentId \in D.students, amount \in D.amounts :
        FeeRespond("createFeeRecord",
                   createFeeRecord(feeRecords, payments, Cardinality(feeRecords) + 1,
                                   user, studentId, amount))

PostPayment(D) ==
    \E user \in D.users, id \in 1..MaxFees, amount \in D.paid :
        FeeRespond("recordPayment",
                   recordPayment(feeRecords, payments, Cardinality(payments) + 1,
                                 user, id, amount))

NextFee ==
    \/ PostFee(FeeDom)
    \/ PostPayment(FeeDom)

SpecFee == Init /\ [][NextFee]_vars

(***************************************************************************)
(* Payments in flight: the handler awaits the findFirst, then the          *)
(* transaction; the transaction works on the feeRecord the findFirst gave. *)
(***************************************************************************)
\* the findFirst and the checks
PaymentBegin(D, p) ==
    /\ procs[p].pc = "idle"
    /\ Cardinality(payments)
         + Cardinality({q \in Procs : procs[q].pc = "tx"}) < MaxPayments
    /\ \E user \in D.users, id \in 1..MaxFees, amount \in D.paid :
        LET found == findFeeRecord(feeRecords, id, user.instituteId) IN
        /\ authorize(user)
        /\ paymentRejection(found, amount) = ""
        /\ procs' = [procs EXCEPT ![p] =
                        [pc |-> "tx", feeRecord |-> CHOOSE f \in found : TRUE,
                         amount |-> amount]]
    /\ UNCHANGED <<timetable, nextId, last, feeRecords, payments>>

\* the transaction
PaymentCommit(p) ==
    /\ procs[p].pc = "tx"
    /\ LET out == paymentTransaction(feeRecords, payments, Cardinality(payments) + 1,
                                     procs[p].feeRecord, procs[p].amount) IN
        /\ feeRecords' = out.feeRecords
        /\ payments' = out.payments
    /\ procs' = [procs EXCEPT ![p] = Idle]
    /\ UNCHANGED <<timetable, nextId, last>>

FeeConcDom ==
    [users |-> {Admin1},
     students |-> {"st1"},
     amounts |-> {20, 30, 40},
     paid |-> {10, 20}]

NextFeeConc ==
    \/ PostFee(FeeConcDom)
    \/ \E p \in Procs :
        \/ PaymentBegin(FeeConcDom, p)
        \/ PaymentCommit(p)

SpecFeeConc == Init /\ [][NextFeeConc]_vars

RECURSIVE SumAmounts(_)
SumAmounts(pays) ==
    IF pays = {} THEN 0
    ELSE LET q == CHOOSE q \in pays : TRUE IN q.amount + SumAmounts(pays \ {q})

PaymentsOf(f) == {q \in payments : q.feeRecordId = f.id}

\* C29: with payments recorded one after another, every fee record has
\* amountPaid + amountDue = amount, 0 <= amountDue, amountPaid equal to the
\* sum of its payments, and status PAID exactly when amountDue = 0.
C29_FeeArithmetic ==
    \A f \in feeRecords :
        /\ f.amountPaid + f.amountDue = f.amount
        /\ 0 <= f.amountDue
        /\ f.amountPaid = SumAmounts(PaymentsOf(f))
        /\ (f.status = "PAID" <=> f.amountDue = 0)

\* C30: once no payment request is in flight, every fee record's amountPaid
\* equals the sum of its payments and does not exceed its amount, also when
\* two requests read the record before either's transaction wrote.
C30_ConcurrentPayments ==
    (\A p \in Procs : procs[p].pc = "idle") =>
        \A f \in feeRecords :
            /\ f.amountPaid = SumAmounts(PaymentsOf(f))
            /\ f.amountPaid <= f.amount

====
